---- MODULE Spec2Model ----
(***************************************************************************)
(* Model of src/Chess_main.py: the frame loop of ChessGame.play, the       *)
(* press/release handling of ChessGame.handle_human_move, the engine reply *)
(* of ChessGame.handle_computer_move and the classifier                    *)
(* ChessGame.get_result.                                                   *)
(*                                                                         *)
(* The chess.Board the program holds is modelled by the rules the program  *)
(* relies on: piece movement, check, promotion, the halfmove clock and the *)
(* repetition count.  The positions of the model carry no castling rights  *)
(* and allow no en-passant capture, so these two rules are not modelled.   *)
(***************************************************************************)
EXTENDS Integers, Sequences, FiniteSets, TLC

\* ------------------------------------------------------------------------
\* Bounds of the model
\* ------------------------------------------------------------------------

\* pygame.event.get() returns at most this many events in one frame.
MaxEvents == 2

\* The user sends mouse events while fewer than this many moves have been
\* pushed, and goes on clicking at a board whose game is over; otherwise the
\* polled batches hold QUIT events only.
MaxPlies == 2

\* The boards get_result is applied to on its own have their pieces in the
\* corner of this many files and ranks at a1.
CornerSize == 3

\* The pixels of a drawn cell the pointer is tried at lie at most this far
\* from the cell's left, right, top or bottom edge.
MaxOffset == 2

\* ------------------------------------------------------------------------
\* chess: colours, pieces, squares, moves
\* ------------------------------------------------------------------------

WHITE == TRUE
BLACK == FALSE

\* piece_symbols of load_piece_images, in the order of chess.PIECE_TYPES
piece_symbols == <<"p", "n", "b", "r", "q", "k">>
PIECE_TYPES == {piece_symbols[i] : i \in 1..6}

\* Python's None, for an optional piece, square, promotion and move.
NonePiece == [piece_type |-> "None", color |-> BLACK]
NoneSquare == -1
NoneMove == [from_square |-> NoneSquare, to_square |-> NoneSquare, promotion |-> "None"]

Piece(t, c) == [piece_type |-> t, color |-> c]

SQUARES == 0..63

\* chess.square(file_index, rank_index)
square(file, rank) == rank * 8 + file
square_file(s) == s % 8
square_rank(s) == s \div 8

\* chess.Move(from_square, to_square): no promotion piece
Move(from, to) == [from_square |-> from, to_square |-> to, promotion |-> "None"]
PromotionMove(from, to, p) == [from_square |-> from, to_square |-> to, promotion |-> p]

Abs(n) == IF n < 0 THEN -n ELSE n
Sgn(n) == IF n < 0 THEN -1 ELSE IF n > 0 THEN 1 ELSE 0
Max2(a, b) == IF a > b THEN a ELSE b

\* board.piece_at(square) over a piece map (square -> Piece of the occupied squares)
map_piece_at(pm, s) == IF s \in DOMAIN pm THEN pm[s] ELSE NonePiece

\* the squares strictly between two aligned squares
between(s, t) ==
    LET df == square_file(t) - square_file(s)
        dr == square_rank(t) - square_rank(s)
        n  == Max2(Abs(df), Abs(dr))
    IN  {square(square_file(s) + k * Sgn(df), square_rank(s) + k * Sgn(dr)) : k \in 1..(n - 1)}

\* whether the piece standing on s attacks t
attacks(pm, s, t) ==
    LET p  == pm[s]
        df == square_file(t) - square_file(s)
        dr == square_rank(t) - square_rank(s)
        clear == between(s, t) \cap DOMAIN pm = {}
        straight == (df = 0 \/ dr = 0) /\ clear
        diagonal == Abs(df) = Abs(dr) /\ clear
    IN  /\ s # t
        /\ CASE p.piece_type = "n" -> {Abs(df), Abs(dr)} = {1, 2}
             [] p.piece_type = "k" -> Max2(Abs(df), Abs(dr)) = 1
             [] p.piece_type = "p" -> Abs(df) = 1 /\ dr = (IF p.color = WHITE THEN 1 ELSE -1)
             [] p.piece_type = "r" -> straight
             [] p.piece_type = "b" -> diagonal
             [] p.piece_type = "q" -> straight \/ diagonal

\* board.is_attacked_by(color, square)
is_attacked_by(pm, color, t) ==
    \E s \in DOMAIN pm : pm[s].color = color /\ attacks(pm, s, t)

\* board.king(color)
king(pm, color) == CHOOSE s \in DOMAIN pm : pm[s] = Piece("k", color)

\* the piece map after a move is made (the mover leaves from_square and lands,
\* promoted if the move says so, on to_square, replacing what stood there)
map_after(pm, m) ==
    LET p == pm[m.from_square]
        landed == IF m.promotion = "None" THEN p ELSE Piece(m.promotion, p.color)
    IN  [s \in (DOMAIN pm \ {m.from_square}) \cup {m.to_square} |->
            IF s = m.to_square THEN landed ELSE pm[s]]

\* the moves of the pawn on s
pawn_moves(pm, s) ==
    LET c == pm[s].color
        dir == IF c = WHITE THEN 1 ELSE -1
        start_rank == IF c = WHITE THEN 1 ELSE 6
        last_rank == IF c = WHITE THEN 7 ELSE 0
        one == s + 8 * dir
        two == s + 16 * dir
        pushes == (IF one \in SQUARES /\ one \notin DOMAIN pm THEN {one} ELSE {})
                  \cup (IF /\ square_rank(s) = start_rank
                           /\ one \notin DOMAIN pm
                           /\ two \notin DOMAIN pm THEN {two} ELSE {})
        captures == {t \in SQUARES : /\ attacks(pm, s, t)
                                     /\ t \in DOMAIN pm
                                     /\ pm[t].color # c}
        targets == pushes \cup captures
    IN  {Move(s, t) : t \in {u \in targets : square_rank(u) # last_rank}}
        \cup {PromotionMove(s, t, p) : t \in {u \in targets : square_rank(u) = last_rank},
                                       p \in {"q", "r", "b", "n"}}

\* board.pseudo_legal_moves
pseudo_legal_moves(pm, turn) ==
    UNION {IF pm[s].piece_type = "p"
             THEN pawn_moves(pm, s)
             ELSE {Move(s, t) : t \in {u \in SQUARES : /\ attacks(pm, s, u)
                                                      /\ (u \in DOMAIN pm => pm[u].color # turn)}}
           : s \in {x \in DOMAIN pm : pm[x].color = turn}}

\* board.legal_moves: the pseudo-legal moves that do not leave the mover's king attacked
map_legal_moves(pm, turn) ==
    {m \in pseudo_legal_moves(pm, turn) :
        LET after == map_after(pm, m)
        IN  ~is_attacked_by(after, ~turn, king(after, turn))}

\* ------------------------------------------------------------------------
\* chess.Board: the piece map, the side to move, the halfmove clock, and the
\* number of times each position occurred since the last irreversible move
\* ------------------------------------------------------------------------

\* board._transposition_key()
transposition_key(pm, turn) == [piece_map |-> pm, turn |-> turn]

Board(pm, turn, clock, seen) ==
    [piece_map |-> pm, turn |-> turn, halfmove_clock |-> clock, seen |-> seen]

\* a board whose position occurs for the first time
FreshBoard(pm, turn, clock) ==
    Board(pm, turn, clock, (transposition_key(pm, turn) :> 1))

\* board.piece_at(square)
piece_at(b, s) == map_piece_at(b.piece_map, s)

\* board.legal_moves
legal_moves(b) == map_legal_moves(b.piece_map, b.turn)

\* board.is_zeroing(move): a pawn move or a capture resets the halfmove clock
is_zeroing(b, m) ==
    \/ b.piece_map[m.from_square].piece_type = "p"
    \/ m.to_square \in DOMAIN b.piece_map

\* board.push(move)
push(b, m) ==
    LET pm  == map_after(b.piece_map, m)
        key == transposition_key(pm, ~b.turn)
        n   == IF key \in DOMAIN b.seen THEN b.seen[key] ELSE 0
    IN  IF is_zeroing(b, m)
          THEN Board(pm, ~b.turn, 0, (key :> 1))
          ELSE Board(pm, ~b.turn, b.halfmove_clock + 1,
                     [k \in DOMAIN b.seen \cup {key} |-> IF k = key THEN n + 1 ELSE b.seen[k]])

\* board.is_check()
is_check(b) == is_attacked_by(b.piece_map, ~b.turn, king(b.piece_map, b.turn))

\* board.is_checkmate()
is_checkmate(b) == is_check(b) /\ legal_moves(b) = {}

\* board.is_stalemate()
is_stalemate(b) == ~is_check(b) /\ legal_moves(b) = {}

\* board.has_insufficient_material(color)
has_insufficient_material(b, color) ==
    LET pm == b.piece_map
        own(t) == {s \in DOMAIN pm : pm[s].color = color /\ pm[s].piece_type = t}
        all(t) == {s \in DOMAIN pm : pm[s].piece_type = t}
        dark(s) == (square_file(s) + square_rank(s)) % 2 = 0
    IN  IF own("p") \cup own("r") \cup own("q") # {} THEN FALSE
        ELSE IF own("n") # {} THEN
            /\ Cardinality({s \in DOMAIN pm : pm[s].color = color}) <= 2
            /\ {s \in DOMAIN pm : /\ pm[s].color # color
                                  /\ pm[s].piece_type \notin {"k", "q"}} = {}
        ELSE IF own("b") # {} THEN
            /\ (\A s \in all("b") : dark(s)) \/ (\A s \in all("b") : ~dark(s))
            /\ all("p") = {}
            /\ all("n") = {}
        ELSE TRUE

\* board.is_insufficient_material()
is_insufficient_material(b) ==
    has_insufficient_material(b, WHITE) /\ has_insufficient_material(b, BLACK)

\* board.is_seventyfive_moves()
is_seventyfive_moves(b) == b.halfmove_clock >= 150 /\ legal_moves(b) # {}

\* board.is_fifty_moves()
is_fifty_moves(b) == b.halfmove_clock >= 100 /\ legal_moves(b) # {}

\* the number of occurrences of the board's position
occurrences(b) == b.seen[transposition_key(b.piece_map, b.turn)]

\* board.is_fivefold_repetition()
is_fivefold_repetition(b) == occurrences(b) >= 5

\* board.can_claim_fifty_moves()
can_claim_fifty_moves(b) ==
    \/ is_fifty_moves(b)
    \/ /\ b.halfmove_clock >= 99
       /\ \E m \in legal_moves(b) : ~is_zeroing(b, m) /\ is_fifty_moves(push(b, m))

\* board.can_claim_threefold_repetition()
can_claim_threefold_repetition(b) ==
    \/ occurrences(b) >= 3
    \/ \E m \in legal_moves(b) : occurrences(push(b, m)) >= 3

\* board.can_claim_draw()
can_claim_draw(b) == can_claim_fifty_moves(b) \/ can_claim_threefold_repetition(b)

\* board.is_game_over()
is_game_over(b) ==
    \/ is_checkmate(b)
    \/ is_insufficient_material(b)
    \/ is_stalemate(b)
    \/ is_seventyfive_moves(b)
    \/ is_fivefold_repetition(b)

\* ------------------------------------------------------------------------
\* ChessGame
\* ------------------------------------------------------------------------

VARIABLES
    board,            \* self.board
    human_player,     \* self.human_player
    computer_player,  \* self.computer_player
    selected_piece,   \* self.selected_piece
    selected_square,  \* self.selected_square
    running,          \* the local `running` of play
    events,           \* the events of pygame.event.get() the for loop has still to visit
    pc,               \* where play stands: "loop", "events", "done", "crashed"
    printed,          \* what print(result) wrote, NoResult before
    error,            \* the exception that ended play, "None" if none
    pushes,           \* history: the arguments of the calls of board.push, with the caller
    frame_start,      \* history: Len(pushes) when the current frame began
    handled,          \* history: the event the for loop visited last in this frame,
                      \* with the square that was selected when it was visited
    engine,           \* self.engine: whether the engine process is "open" or "closed"
    drawn,            \* the cell draw_board drew last: its square and its rectangle
    picked            \* the pointer position handle_human_move read last on its
                      \* own, and the square it computed from it

vars == <<board, human_player, computer_player, selected_piece, selected_square,
          running, events, pc, printed, error, pushes, frame_start, handled,
          engine, drawn, picked>>

board_size == 640
square_size == board_size \div 8

NoResult == "None"

\* pygame event types the loop tells apart; MOUSEMOTION stands for every other type
EventTypes == {"QUIT", "MOUSEBUTTONDOWN", "MOUSEBUTTONUP", "MOUSEMOTION"}

\* all sequences over S of length at most n
RECURSIVE SeqsUpTo(_, _)
SeqsUpTo(S, n) ==
    IF n = 0 THEN {<<>>}
    ELSE LET shorter == SeqsUpTo(S, n - 1)
         IN  shorter \cup {Append(q, e) : q \in {x \in shorter : Len(x) = n - 1}, e \in S}

\* pygame.mouse.get_pos(): the pointer is over the centre of some cell of the window
MousePositions ==
    {<<c * square_size + square_size \div 2, r * square_size + square_size \div 2>> :
        c \in 0..7, r \in 0..7}

\* square_under without the turn of the rows (rank = row)
square_under_unflipped(pos) ==
    LET col == pos[1] \div square_size
        row == pos[2] \div square_size
    IN  square(col, row)

\* the square under the pointer (handle_human_move)
square_under(pos) ==
    LET col == pos[1] \div square_size
        row == pos[2] \div square_size
    IN  square(col, 7 - row)

\* draw_board, line 55: the pygame.Rect of the cell of a square
draw_board_rect(s) ==
    LET row == 7 - s \div 8
        col == s % 8
    IN  [left |-> col * square_size, top |-> row * square_size,
         width |-> square_size, height |-> square_size]

\* no cell drawn yet, no position read yet
NoDrawn == [square |-> NoneSquare, rect |-> [left |-> 0, top |-> 0, width |-> 0, height |-> 0]]
NoPicked == [pos |-> <<0, 0>>, square |-> NoneSquare]

\* get_result with the two answers for checkmate exchanged
get_result_swapped(b, human) ==
    IF is_checkmate(b) THEN
        IF b.turn = human THEN "You won" ELSE "You lost"
    ELSE IF is_stalemate(b) THEN "It's a stalemate"
    ELSE IF is_insufficient_material(b) THEN "It's a draw due to insufficient material"
    ELSE IF is_seventyfive_moves(b) THEN "It's a draw due to the 75-move rule"
    ELSE IF is_fivefold_repetition(b) THEN "It's a draw due to the fivefold repetition rule"
    ELSE IF can_claim_draw(b) THEN "It's a draw by claim"
    ELSE "Unknown result"

\* get_result with the claimable draw tested before the fivefold repetition
get_result_claim_first(b, human) ==
    IF is_checkmate(b) THEN
        IF b.turn = human THEN "You lost" ELSE "You won"
    ELSE IF is_stalemate(b) THEN "It's a stalemate"
    ELSE IF is_insufficient_material(b) THEN "It's a draw due to insufficient material"
    ELSE IF is_seventyfive_moves(b) THEN "It's a draw due to the 75-move rule"
    ELSE IF can_claim_draw(b) THEN "It's a draw by claim"
    ELSE IF is_fivefold_repetition(b) THEN "It's a draw due to the fivefold repetition rule"
    ELSE "Unknown result"

\* ChessGame.get_result
get_result(b, human) ==
    IF is_checkmate(b) THEN
        IF b.turn = human THEN "You lost" ELSE "You won"
    ELSE IF is_stalemate(b) THEN "It's a stalemate"
    ELSE IF is_insufficient_material(b) THEN "It's a draw due to insufficient material"
    ELSE IF is_seventyfive_moves(b) THEN "It's a draw due to the 75-move rule"
    ELSE IF is_fivefold_repetition(b) THEN "It's a draw due to the fivefold repetition rule"
    ELSE IF can_claim_draw(b) THEN "It's a draw by claim"
    ELSE "Unknown result"

\* draw_possible_moves without the test of the move's from_square
draw_all_legal_targets ==
    IF selected_piece # NonePiece
      THEN {m.to_square : m \in legal_moves(board)}
      ELSE {}

\* ChessGame.draw_possible_moves: the squares that get a circle
draw_possible_moves ==
    IF selected_piece # NonePiece
      THEN {m.to_square : m \in {x \in legal_moves(board) : x.from_square = selected_square}}
      ELSE {}

\* press_selects without the test of the piece's colour
press_selects_any_piece(piece) == piece # NonePiece

\* handle_human_move, line 175: whether the pressed square selects its piece
press_selects(piece) == piece # NonePiece /\ piece.color = human_player

\* release_is_legal without the test of line 185: every candidate is pushed
release_unchecked(move, legal) == TRUE

\* handle_human_move, line 185: whether the candidate move is pushed, `legal`
\* being self.board.legal_moves
release_is_legal(move, legal) == move \in legal

\* the record of one visit of the for loop
Handled(event, held) == [event |-> event, held |-> held]
NoHandled == Handled("None", NoneSquare)

\* the record of one call of board.push
Pushed(move, by) == [move |-> move, by |-> by]

\* handle_human_move with a release that drops the selection when the
\* candidate is not legal
handle_human_move_dropping(event) ==
    IF event = "MOUSEBUTTONDOWN" THEN
        \E pos \in MousePositions :
            LET sq == square_under(pos)
                piece == piece_at(board, sq)
            IN  /\ IF press_selects(piece)
                     THEN selected_piece' = piece /\ selected_square' = sq
                     ELSE UNCHANGED <<selected_piece, selected_square>>
                /\ UNCHANGED <<board, pushes>>
    ELSE IF event = "MOUSEBUTTONUP" /\ selected_piece # NonePiece THEN
        LET legal == legal_moves(board)
        IN  \E pos \in MousePositions :
                LET target_square == square_under(pos)
                    move == Move(selected_square, target_square)
                IN  /\ IF release_is_legal(move, legal)
                         THEN /\ board' = push(board, move)
                              /\ pushes' = Append(pushes, Pushed(move, "human"))
                         ELSE UNCHANGED <<board, pushes>>
                    /\ selected_piece' = NonePiece
                    /\ selected_square' = NoneSquare
    ELSE UNCHANGED <<board, pushes, selected_piece, selected_square>>

\* ChessGame.handle_human_move(event); pygame.mouse.get_pos() is read in the
\* branch that handles the event
handle_human_move(event) ==
    IF event = "MOUSEBUTTONDOWN" THEN
        \E pos \in MousePositions :
            LET sq == square_under(pos)
                piece == piece_at(board, sq)
            IN  /\ IF press_selects(piece)
                     THEN selected_piece' = piece /\ selected_square' = sq
                     ELSE UNCHANGED <<selected_piece, selected_square>>
                /\ UNCHANGED <<board, pushes>>
    ELSE IF event = "MOUSEBUTTONUP" /\ selected_piece # NonePiece THEN
        LET legal == legal_moves(board)
        IN  \E pos \in MousePositions :
                LET target_square == square_under(pos)
                    move == Move(selected_square, target_square)
                IN  IF release_is_legal(move, legal)
                      THEN /\ board' = push(board, move)
                           /\ pushes' = Append(pushes, Pushed(move, "human"))
                           /\ selected_piece' = NonePiece
                           /\ selected_square' = NoneSquare
                      ELSE UNCHANGED <<board, pushes, selected_piece, selected_square>>
    ELSE UNCHANGED <<board, pushes, selected_piece, selected_square>>

\* the batches pygame.event.get() may return when the user still plays (mouse
\* events come) and when the user has stopped (the window is closed, if anything)
EventBatches(user_plays) ==
    SeqsUpTo(IF user_plays THEN EventTypes ELSE {"QUIT"}, MaxEvents)

\* play, lines 87-97: draw, test for game over, poll the events
BeginFrame ==
    /\ pc = "loop"
    /\ IF is_game_over(board)
         THEN /\ printed' = get_result(board, human_player)
              /\ running' = FALSE
         ELSE UNCHANGED <<printed, running>>
    /\ events' \in EventBatches(Len(pushes) < MaxPlies \/ is_game_over(board))
    /\ frame_start' = Len(pushes)
    /\ handled' = NoHandled
    /\ pc' = "events"
    /\ UNCHANGED <<board, human_player, computer_player, selected_piece,
                   selected_square, error, pushes>>
    /\ UNCHANGED <<engine, drawn, picked>>

\* play, lines 98-99: a QUIT event
HandleQuit ==
    /\ pc = "events"
    /\ events # <<>>
    /\ Head(events) = "QUIT"
    /\ running' = FALSE
    /\ events' = Tail(events)
    /\ handled' = Handled(Head(events), selected_square)
    /\ UNCHANGED <<board, human_player, computer_player, selected_piece,
                   selected_square, pc, printed, error, pushes, frame_start>>
    /\ UNCHANGED <<engine, drawn, picked>>

\* routes_to_human without the test of the turn
routes_always == TRUE

\* whether play routes an event that is not QUIT to handle_human_move (line 100)
routes_to_human == board.turn = human_player

\* play, lines 100-101: any other event while it is the human's turn
HandleHumanEvent ==
    /\ pc = "events"
    /\ events # <<>>
    /\ Head(events) # "QUIT"
    /\ routes_to_human
    /\ handle_human_move(Head(events))
    /\ events' = Tail(events)
    /\ handled' = Handled(Head(events), selected_square)
    /\ UNCHANGED <<human_player, computer_player, running, pc, printed, error,
                   frame_start>>
    /\ UNCHANGED <<engine, drawn, picked>>

\* play, line 100 false: any other event while it is not the human's turn
DropEvent ==
    /\ pc = "events"
    /\ events # <<>>
    /\ Head(events) # "QUIT"
    /\ ~routes_to_human
    /\ events' = Tail(events)
    /\ handled' = Handled(Head(events), selected_square)
    /\ UNCHANGED <<board, human_player, computer_player, selected_piece,
                   selected_square, running, pc, printed, error, pushes, frame_start>>
    /\ UNCHANGED <<engine, drawn, picked>>

\* calls_computer without the test of the turn
calls_computer_any_turn == running

\* whether play calls handle_computer_move after the events (line 103)
calls_computer == running /\ board.turn = computer_player

\* engine.play(board, limit).move: a legal move, or None when the position has none
engine_moves(b) == IF legal_moves(b) = {} THEN {NoneMove} ELSE legal_moves(b)

\* play, lines 103-104, and handle_computer_move when the engine answers:
\* the move is pushed as it comes; board.push(None) raises AttributeError
ComputerMove ==
    /\ pc = "events"
    /\ events = <<>>
    /\ calls_computer
    /\ \E move \in engine_moves(board) :
         /\ pushes' = Append(pushes, Pushed(move, "computer"))
         /\ IF move = NoneMove
              THEN /\ error' = "AttributeError"
                   /\ pc' = "crashed"
                   /\ UNCHANGED board
              ELSE /\ board' = push(board, move)
                   /\ pc' = "loop"
                   /\ UNCHANGED error
    /\ handled' = NoHandled
    /\ UNCHANGED <<human_player, computer_player, selected_piece, selected_square,
                   running, events, printed, frame_start>>
    /\ UNCHANGED <<engine, drawn, picked>>

\* play, lines 103-104, and handle_computer_move when engine.play raises
EngineFails ==
    /\ pc = "events"
    /\ events = <<>>
    /\ calls_computer
    /\ error' = "EngineError"
    /\ pc' = "crashed"
    /\ handled' = NoHandled
    /\ UNCHANGED <<board, human_player, computer_player, selected_piece,
                   selected_square, running, events, printed, pushes, frame_start>>
    /\ UNCHANGED <<engine, drawn, picked>>

\* play, line 103 false: the frame ends, and the loop with it if running is False
EndFrame ==
    /\ pc = "events"
    /\ events = <<>>
    /\ ~calls_computer
    /\ pc' = IF running THEN "loop" ELSE "done"
    /\ handled' = NoHandled
    /\ UNCHANGED <<board, human_player, computer_player, selected_piece,
                   selected_square, running, events, printed, error, pushes,
                   frame_start>>
    /\ UNCHANGED <<engine, drawn, picked>>

\* ------------------------------------------------------------------------
\* The positions the model starts from.  chess.Board() is the standard
\* starting position; the model starts later in a game, White to move, in
\* positions from which mate, stalemate, a bare-kings draw, the 75-move rule
\* and a fifth repetition are a move or two away.
\* ------------------------------------------------------------------------

\* White: Kh6, pawns f7 and g6.  Black: Kh8.  The pawn move g7 mates; f8 is a
\* promotion square.
MateEnding ==
    (square(7, 5) :> Piece("k", WHITE)) @@ (square(5, 6) :> Piece("p", WHITE))
    @@ (square(6, 5) :> Piece("p", WHITE)) @@ (square(7, 7) :> Piece("k", BLACK))

\* White: Ka1, pawn h7.  Black: Kh8, which can take the pawn and leave bare kings.
BareEnding ==
    (square(0, 0) :> Piece("k", WHITE)) @@ (square(7, 6) :> Piece("p", WHITE))
    @@ (square(7, 7) :> Piece("k", BLACK))

\* White: Kh1, pawn a2.  Black: Kh3, pawns f2 and g3.  After a pawn move of
\* White, the pawn move g2 mates.
LostEnding ==
    (square(7, 0) :> Piece("k", WHITE)) @@ (square(0, 1) :> Piece("p", WHITE))
    @@ (square(7, 2) :> Piece("k", BLACK)) @@ (square(5, 1) :> Piece("p", BLACK))
    @@ (square(6, 2) :> Piece("p", BLACK))

\* BareEnding in a game where the position after Ka2 Kg7 has occurred four times
RepeatedBareEnding ==
    LET after == push(push(FreshBoard(BareEnding, WHITE, 0),
                           Move(square(0, 0), square(0, 1))),
                      Move(square(7, 7), square(6, 6)))
    IN  Board(BareEnding, WHITE, 40,
              (transposition_key(BareEnding, WHITE) :> 1)
              @@ (transposition_key(after.piece_map, after.turn) :> 4))

StartBoards ==
    { FreshBoard(MateEnding, WHITE, 0),
      FreshBoard(BareEnding, WHITE, 0),
      FreshBoard(BareEnding, WHITE, 148),
      RepeatedBareEnding,
      FreshBoard(LostEnding, WHITE, 0) }

\* ChessGame.__init__ and the entry into play
Init ==
    /\ board \in StartBoards
    /\ human_player = WHITE
    /\ computer_player = BLACK
    /\ selected_piece = NonePiece
    /\ selected_square = NoneSquare
    /\ running = TRUE
    /\ events = <<>>
    /\ pc = "loop"
    /\ printed = NoResult
    /\ error = "None"
    /\ pushes = <<>>
    /\ frame_start = 0
    /\ handled = NoHandled
    /\ engine = "open"
    /\ drawn = NoDrawn
    /\ picked = NoPicked

Next ==
    \/ BeginFrame
    \/ HandleQuit
    \/ HandleHumanEvent
    \/ DropEvent
    \/ ComputerMove
    \/ EngineFails
    \/ EndFrame

Spec == Init /\ [][Next]_vars

\* play's loop goes on while it can: a frame that has begun is carried through
FairSpec == Spec /\ WF_vars(Next)

\* ------------------------------------------------------------------------
\* get_result on its own: the classifier applied to boards of two kings and
\* a queen, for either colour of the human
\* ------------------------------------------------------------------------

Corner == {square(f, r) : f \in 0..(CornerSize - 1), r \in 0..(CornerSize - 1)}

\* the piece maps of a white king, a black king and a queen of either colour
CornerMaps ==
    {(wk :> Piece("k", WHITE)) @@ (bk :> Piece("k", BLACK)) @@ (q :> Piece("q", c)) :
        wk \in Corner, bk \in Corner, q \in Corner, c \in BOOLEAN}

\* the positions a game can reach: three pieces on three squares, and the
\* side that has just moved not left in check
ResultBoards ==
    {FreshBoard(pm, turn, 0) :
        pm \in {m \in CornerMaps : Cardinality(DOMAIN m) = 3},
        turn \in BOOLEAN}

LegalPosition(b) ==
    ~is_attacked_by(b.piece_map, b.turn, king(b.piece_map, ~b.turn))

ResultInit ==
    /\ board \in {b \in ResultBoards : LegalPosition(b)}
    /\ human_player \in {WHITE, BLACK}
    /\ computer_player = ~human_player
    /\ selected_piece = NonePiece
    /\ selected_square = NoneSquare
    /\ running = TRUE
    /\ events = <<>>
    /\ pc = "loop"
    /\ printed = NoResult
    /\ error = "None"
    /\ pushes = <<>>
    /\ frame_start = 0
    /\ handled = NoHandled
    /\ engine = "open"
    /\ drawn = NoDrawn
    /\ picked = NoPicked

\* play, lines 93-94: result = self.get_result(); print(result)
GetResult ==
    /\ pc = "loop"
    /\ printed' = get_result(board, human_player)
    /\ pc' = "done"
    /\ UNCHANGED <<board, human_player, computer_player, selected_piece,
                   selected_square, running, events, error, pushes, frame_start,
                   handled>>
    /\ UNCHANGED <<engine, drawn, picked>>

SpecResult == ResultInit /\ [][GetResult]_vars

\* ------------------------------------------------------------------------
\* get_result on its own, for the human playing White as __init__ has it:
\* the classifier applied to boards of two kings with or without a queen, at
\* several values of the halfmove clock and of the repetition count
\* ------------------------------------------------------------------------

\* the piece maps of a white king and a black king alone
KingMaps ==
    {m \in {(wk :> Piece("k", WHITE)) @@ (bk :> Piece("k", BLACK)) :
                wk \in Corner, bk \in Corner} : Cardinality(DOMAIN m) = 2}

\* halfmove clocks below and at the fifty-move and seventy-five-move marks
ClassifyClocks == {0, 100, 150}

\* how often the position has occurred: once, three times, five times
ClassifyOccurrences == {1, 3, 5}

ClassifyBoards ==
    {Board(pm, turn, clock, (transposition_key(pm, turn) :> n)) :
        pm \in {m \in CornerMaps : Cardinality(DOMAIN m) = 3} \cup KingMaps,
        turn \in BOOLEAN,
        clock \in ClassifyClocks,
        n \in ClassifyOccurrences}

ClassifyInit ==
    /\ board \in {b \in ClassifyBoards : LegalPosition(b)}
    /\ human_player = WHITE
    /\ computer_player = BLACK
    /\ selected_piece = NonePiece
    /\ selected_square = NoneSquare
    /\ running = TRUE
    /\ events = <<>>
    /\ pc = "loop"
    /\ printed = NoResult
    /\ error = "None"
    /\ pushes = <<>>
    /\ frame_start = 0
    /\ handled = NoHandled
    /\ engine = "open"
    /\ drawn = NoDrawn
    /\ picked = NoPicked

SpecClassify == ClassifyInit /\ [][GetResult]_vars

\* ------------------------------------------------------------------------
\* draw_board and the pointer arithmetic of handle_human_move on their own:
\* a cell is drawn, the pointer is put on a pixel of it, and the square is
\* computed from the pointer as lines 170-173 do
\* ------------------------------------------------------------------------

\* the pixels of a rectangle near its edges, its origin among them
CellPixels(rect) ==
    LET near(d, size) == d <= MaxOffset \/ d >= size - 1 - MaxOffset
    IN  {<<rect.left + dx, rect.top + dy>> :
            dx \in {d \in 0..(rect.width - 1) : near(d, rect.width)},
            dy \in {d \in 0..(rect.height - 1) : near(d, rect.height)}}

\* draw_board, lines 52-55: the cell of one square is drawn
DrawCell ==
    /\ drawn = NoDrawn
    /\ \E s \in SQUARES : drawn' = [square |-> s, rect |-> draw_board_rect(s)]
    /\ UNCHANGED <<board, human_player, computer_player, selected_piece,
                   selected_square, running, events, pc, printed, error, pushes,
                   frame_start, handled, engine, picked>>

\* handle_human_move, lines 170-173, with the pointer on a pixel of the drawn cell
PickSquare ==
    /\ drawn # NoDrawn
    /\ picked = NoPicked
    /\ \E pos \in CellPixels(drawn.rect) :
         picked' = [pos |-> pos, square |-> square_under(pos)]
    /\ UNCHANGED <<board, human_player, computer_player, selected_piece,
                   selected_square, running, events, pc, printed, error, pushes,
                   frame_start, handled, engine, drawn>>

\* the state after construction, before play
InitPixel == Init /\ board = FreshBoard(MateEnding, WHITE, 0)

NextPixel == DrawCell \/ PickSquare

SpecPixel == InitPixel /\ [][NextPixel]_vars

\* ------------------------------------------------------------------------
\* Properties
\* ------------------------------------------------------------------------

Last(q) == q[Len(q)]

\* the calls of board.push made in the current frame
FramePushes == SubSeq(pushes, frame_start + 1, Len(pushes))

\* the states of the selection
Idle == selected_piece = NonePiece /\ selected_square = NoneSquare
PieceHeld == selected_piece # NonePiece /\ selected_square # NoneSquare

\* a step of the for loop over the polled events
EventStep == pc = "events" /\ events # <<>>

\* C1: whenever the handling of an event changes the board or calls
\* board.push, the event is a release, one move is pushed, and that move is
\* the candidate (held square, release square) and a member of the legal
\* moves of the board as it stood at the release.
C1_HumanMovesAreLegal ==
    [][(EventStep /\ (board' # board \/ pushes' # pushes)) =>
        \E m \in legal_moves(board) :
            /\ Head(events) = "MOUSEBUTTONUP"
            /\ m.from_square = selected_square
            /\ m.promotion = "None"
            /\ board' = push(board, m)
            /\ pushes' = Append(pushes, Pushed(m, "human"))]_vars

\* a release has just applied a human move
C1_Witness ==
    /\ handled.event = "MOUSEBUTTONUP"
    /\ Len(pushes) > frame_start
    /\ Last(pushes).by = "human"
    /\ Last(pushes).move.from_square = handled.held

\* C2: once a frame has found the game over and printed the result, no
\* step changes the selection or the board.
C2_NoInputAfterGameOver ==
    [][printed # NoResult =>
        /\ selected_piece' = selected_piece
        /\ selected_square' = selected_square
        /\ board' = board]_vars

C4_SelectionOfSideToMove ==
    /\ [](Idle \/ (PieceHeld /\ selected_piece.color = board.turn))
    /\ [](board.turn = computer_player => Idle)
    /\ [][board'.turn # board.turn => Idle']_vars

\* the turn has passed to the opponent by a move of the piece that was held
C4_Witness ==
    /\ board.turn = computer_player
    /\ handled.held # NoneSquare
    /\ Idle

\* the for loop is about to hand a release (a press) to handle_human_move
\* while a piece is held
HeldRelease ==
    EventStep /\ Head(events) = "MOUSEBUTTONUP" /\ board.turn = human_player /\ PieceHeld
HeldPress ==
    EventStep /\ Head(events) = "MOUSEBUTTONDOWN" /\ board.turn = human_player /\ PieceHeld

\* the candidate move of a release at pos
Candidate(pos) == Move(selected_square, square_under(pos))

\* the step applies the move m of the human and clears the selection
Applies(m) ==
    /\ board' = push(board, m)
    /\ pushes' = Append(pushes, Pushed(m, "human"))
    /\ Idle'

\* the step changes neither the board nor the selection, and raises nothing
Abandons ==
    /\ UNCHANGED <<board, pushes, selected_piece, selected_square>>
    /\ UNCHANGED <<pc, error, running>>

\* the step changes nothing but the selection, which it clears
Clears ==
    /\ UNCHANGED <<board, pushes, pc, error, running>>
    /\ Idle'

\* C5 as stated: a release while a piece is held applies the candidate if it
\* is legal, and otherwise clears the selection, with the board, the side to
\* move and the error state unchanged.
C5_IllegalReleaseClears ==
    [][HeldRelease =>
        \E pos \in MousePositions :
            IF Candidate(pos) \in legal_moves(board)
              THEN Applies(Candidate(pos))
              ELSE Clears]_vars

\* C5 as amended: a release while a piece is held applies the candidate if
\* it is legal, and otherwise changes nothing: no move is applied, the board
\* and the side to move are unchanged, nothing is raised, and the piece
\* stays held.  Every release square is handled so.
C5_IllegalReleaseKeepsSelection ==
    /\ [][HeldRelease =>
            \E pos \in MousePositions :
                IF Candidate(pos) \in legal_moves(board)
                  THEN Applies(Candidate(pos))
                  ELSE Abandons]_vars
    /\ [](HeldRelease =>
            \A pos \in MousePositions :
                Candidate(pos) \notin legal_moves(board) =>
                    ENABLED (HandleHumanEvent /\ Abandons))

\* a release on a square the held piece may not go to has left the piece held
C5_Witness ==
    /\ handled.event = "MOUSEBUTTONUP"
    /\ handled.held # NoneSquare
    /\ PieceHeld
    /\ selected_square = handled.held
    /\ Len(pushes) = frame_start

\* the step selects the piece on sq
Selects(sq) ==
    /\ selected_square' = sq
    /\ selected_piece' = piece_at(board, sq)
    /\ UNCHANGED <<board, pushes, pc, error, running>>

\* the piece on sq is of the side to move
OwnPieceAt(sq) == sq \in DOMAIN board.piece_map /\ board.piece_map[sq].color = board.turn

\* C6 as stated: a press while a piece is held changes nothing.
C6_PressWhileHeldIgnored == [][HeldPress => Abandons]_vars

\* C6 as amended: a press while a piece is held, on a square that holds a
\* piece of the side to move, makes that square and piece the selection; a
\* press on an empty square or on a piece of the other side changes nothing;
\* in both cases a piece stays held.  Every pressed square is handled so.
C6_PressWhileHeldRetargets ==
    /\ [][HeldPress =>
            /\ PieceHeld'
            /\ \E pos \in MousePositions :
                 IF OwnPieceAt(square_under(pos))
                   THEN Selects(square_under(pos))
                   ELSE Abandons]_vars
    /\ [](HeldPress =>
            \A pos \in MousePositions :
                IF OwnPieceAt(square_under(pos))
                  THEN ENABLED (HandleHumanEvent /\ Selects(square_under(pos)))
                  ELSE ENABLED (HandleHumanEvent /\ Abandons))

\* a press on another piece of the human, while one was held, has made that
\* piece the selection
C6_Witness ==
    /\ handled.event = "MOUSEBUTTONDOWN"
    /\ handled.held # NoneSquare
    /\ PieceHeld
    /\ selected_square # handled.held

\* a step applies a move: board.push is called with a move that is not None
MoveApplied == Len(pushes') = Len(pushes) + 1 /\ Last(pushes').move # NoneMove

\* C7: the side to move changes in exactly the steps that apply a move; such
\* a step applies one move, made by the handler of the side that was to
\* move, and that handler is not the one that made the move before.
C7_TurnAlternates ==
    [][/\ (board'.turn # board.turn) <=> MoveApplied
       /\ ~MoveApplied => board' = board
       /\ MoveApplied =>
            /\ board' = push(board, Last(pushes').move)
            /\ (Last(pushes').by = "human") <=> (board.turn = human_player)
            /\ (Last(pushes').by = "computer") <=> (board.turn = computer_player)
            /\ pushes # <<>> => Last(pushes).by # Last(pushes').by]_vars

\* three moves have been applied, by the human, the engine and the human
C7_Witness ==
    /\ Len(pushes) = 3
    /\ pushes[1].by = "human" /\ pushes[2].by = "computer" /\ pushes[3].by = "human"
    /\ board.turn = computer_player

\* C8: with nothing selected no square is marked; with a piece held the
\* marked squares are exactly the to-squares of the legal moves that start
\* on the held square.
C8_HintsAreDestinations ==
    \/ Idle /\ draw_possible_moves = {}
    \/ /\ PieceHeld
       /\ draw_possible_moves =
            {t \in SQUARES : \E m \in legal_moves(board) :
                                m.from_square = selected_square /\ m.to_square = t}

\* a held piece has destinations while another piece has legal moves too
C8_Witness ==
    /\ PieceHeld
    /\ draw_possible_moves # {}
    /\ \E m \in legal_moves(board) : m.from_square # selected_square

\* C9: on a checkmated board the classifier gives the win to the side that
\* is not to move: "You won" when that side is the human's colour, "You
\* lost" when it is the opponent's, whichever colour the human has.
C9_MateGoesToSideNotToMove ==
    (pc = "done" /\ is_checkmate(board)) =>
        LET winner == ~board.turn
        IN  /\ winner = human_player => printed = "You won"
            /\ winner = computer_player => printed = "You lost"

\* for a human playing Black, a board on which White is mated has been
\* classified as the human's win
C9_Witness ==
    /\ pc = "done"
    /\ is_checkmate(board)
    /\ human_player = BLACK
    /\ board.turn = WHITE
    /\ printed = "You won"

\* C10: board.push is never called with None, and play ends by an
\* exception only when the engine's request itself failed.
C10_EngineFailureHandled ==
    /\ \A i \in 1..Len(pushes) : pushes[i].move # NoneMove
    /\ pc = "crashed" => error = "EngineError"

\* C11: the square computed from any pixel of the cell drawn for a square s,
\* the cell's origin included, is s; and the origin of that cell is
\* (s mod 8, 7 - s div 8) scaled by the square size.
C11_PixelRoundTrip ==
    /\ drawn # NoDrawn =>
          /\ drawn.rect.left = (drawn.square % 8) * square_size
          /\ drawn.rect.top = (7 - drawn.square \div 8) * square_size
          /\ square_under(<<drawn.rect.left, drawn.rect.top>>) = drawn.square
    /\ picked # NoPicked => picked.square = drawn.square

\* the square of a cell of the top row was computed from the pixel in the
\* cell's bottom right corner
C11_Witness ==
    /\ picked # NoPicked
    /\ drawn.square = square(7, 7)
    /\ picked.pos = <<drawn.rect.left + square_size - 1, drawn.rect.top + square_size - 1>>
    /\ picked.square = square(7, 7)

\* a QUIT event was read and the loop was not stopped by the end of the game
QuitRead == ~running /\ printed = NoResult

\* the frame is about to call handle_computer_move (line 104)
EngineRequested == pc = "events" /\ events = <<>> /\ calls_computer

\* C12: once a QUIT event has been read, no step changes the selection or
\* the board or calls board.push, and the engine is not asked for a move.
C12_NoInputAfterQuit ==
    /\ [][QuitRead => UNCHANGED <<selected_piece, selected_square, board, pushes>>]_vars
    /\ [](QuitRead => ~EngineRequested)

\* C13: the engine is never asked for a move on a board whose game is over.
C13_NoEngineRequestWhenGameOver == EngineRequested => ~is_game_over(board)

\* the human has just applied a move that mates the opponent
HumanMated ==
    /\ is_checkmate(board)
    /\ board.turn = computer_player
    /\ pushes # <<>>
    /\ Last(pushes).by = "human"

\* C14: after a mating move of the human, play ends having printed "You
\* won" (or because the window was closed), and no step changes the mated
\* board.
C14_HumanMateReported ==
    /\ HumanMated ~> (pc = "done" /\ (printed = "You won" \/ QuitRead))
    /\ [][is_checkmate(board) => board' = board]_vars

\* the six predicates get_result tests, in the order of the claim, and the
\* answers that belong to them; the seventh answer is for none of them
Predicates(b) ==
    <<is_checkmate(b), is_stalemate(b), is_insufficient_material(b),
      is_seventyfive_moves(b), is_fivefold_repetition(b), can_claim_draw(b)>>
Outcomes ==
    <<{"You lost", "You won"},
      {"It's a stalemate"},
      {"It's a draw due to insufficient material"},
      {"It's a draw due to the 75-move rule"},
      {"It's a draw due to the fivefold repetition rule"},
      {"It's a draw by claim"},
      {"Unknown result"}>>

\* the place of the first of the six truth values p that is true, 7 if none is
FirstMatch(p) ==
    CHOOSE i \in 1..7 :
        /\ i = 7 \/ p[i]
        /\ \A j \in 1..(i - 1) : ~p[j]

\* C15: the answer of the classifier is that of the first predicate that
\* holds, in the order checkmate, stalemate, insufficient material, 75-move
\* rule, fivefold repetition, claimable draw; it is "Unknown result" only
\* when none of the six holds.
C15_FirstMatchWins ==
    pc = "done" =>
        LET p == Predicates(board)
        IN  /\ printed \in Outcomes[FirstMatch(p)]
            /\ (printed = "Unknown result") <=> (\A i \in 1..6 : ~p[i])

\* a board that is a fivefold repetition and on which a draw can be claimed
\* has been classified as a fivefold repetition
C15_Witness ==
    /\ pc = "done"
    /\ is_fivefold_repetition(board)
    /\ can_claim_draw(board)
    /\ ~is_seventyfive_moves(board)
    /\ printed = "It's a draw due to the fivefold repetition rule"

\* C16: every call of board.push, by the human's handler or the engine's,
\* is made with a member of the legal moves of the board as it stands.
C16_PushedMovesAreLegal ==
    [][pushes' # pushes =>
        /\ pushes' = Append(pushes, Last(pushes'))
        /\ Last(pushes').move \in legal_moves(board)]_vars

\* C17: when play has ended, by the end of the game, by a QUIT event or by
\* an exception, the engine process has been closed.
C17_EngineReleased == pc \in {"done", "crashed"} => engine = "closed"

\* the for loop is about to hand a press (a release) to handle_human_move
\* while nothing is selected
IdlePress ==
    EventStep /\ Head(events) = "MOUSEBUTTONDOWN" /\ board.turn = human_player /\ Idle
IdleRelease ==
    EventStep /\ Head(events) = "MOUSEBUTTONUP" /\ board.turn = human_player /\ Idle

\* the step leaves nothing selected and changes neither the board nor the
\* side to move, and raises nothing
StaysIdle == Idle' /\ Abandons

\* C18: with nothing selected, a press on an empty square or on a piece that
\* is not of the side to move changes nothing and leaves nothing selected,
\* and a press never changes the board; a release with nothing selected
\* changes nothing.  Every pressed square is handled so.
C18_IdleNoOps ==
    /\ [][IdlePress =>
            \E pos \in MousePositions :
                IF OwnPieceAt(square_under(pos))
                  THEN Selects(square_under(pos))
                  ELSE StaysIdle]_vars
    /\ [](IdlePress =>
            \A pos \in MousePositions :
                ~OwnPieceAt(square_under(pos)) =>
                    /\ ENABLED (HandleHumanEvent /\ StaysIdle)
                    /\ ~ENABLED (HandleHumanEvent /\ selected_square' = square_under(pos)))
    /\ [][IdleRelease => StaysIdle]_vars

\* a press with nothing selected has left nothing selected
C18_Witness ==
    /\ handled.event = "MOUSEBUTTONDOWN"
    /\ handled.held = NoneSquare
    /\ Idle
    /\ board.turn = human_player
    /\ Len(pushes) = frame_start

\* the step applies a move of the held piece to the square t and passes the turn
AppliesTo(t) ==
    /\ \E m \in legal_moves(board) :
         /\ m.from_square = selected_square
         /\ m.to_square = t
         /\ board' = push(board, m)
    /\ board'.turn # board.turn

\* C19: whenever a release is handled with a piece held, a release on any
\* of the squares draw_possible_moves marks applies a move from the held
\* square to that square and passes the turn.
C19_HintedReleaseApplies ==
    HeldRelease =>
        \A pos \in MousePositions :
            square_under(pos) \in draw_possible_moves =>
                ENABLED (HandleHumanEvent /\ AppliesTo(square_under(pos)))

\* C20: the selected square and the selected piece are set and cleared
\* together; while a piece is held it is the piece the board has on the
\* selected square; and no step changes the board and leaves a piece held.
C20_SelectionMatchesBoard ==
    /\ [](Idle \/ PieceHeld)
    /\ [](PieceHeld => selected_piece = piece_at(board, selected_square))
    /\ [][board' # board => Idle']_vars

\* a piece is held after the board has changed twice, and it is the piece
\* on the selected square
C20_Witness ==
    /\ PieceHeld
    /\ Len(pushes) >= 2
    /\ Last(pushes).move # NoneMove
    /\ selected_piece = piece_at(board, selected_square)

====
